---------------------------- MODULE Spec2Model ----------------------------
(***************************************************************************)
(* A model of the MeetingMind OBS plugin (src/obs-plugin/src/              *)
(* meetingmind-plugin.cpp): the global configuration, the dock widget's    *)
(* form, the persisted configuration file, the one WebSocket the plugin    *)
(* owns, and the dispatch of meeting events to host (OBS) actions.         *)
(*                                                                         *)
(* Everything runs on the host's UI thread, so every handler is one        *)
(* atomic action.  A Qt signal is delivered synchronously to the slots     *)
(* that QObject::connect attached to it, inside the action that emits it.  *)
(***************************************************************************)
EXTENDS Naturals, Integers, Sequences, FiniteSets, TLC

VARIABLES
    phase,            \* "unloaded" | "running" | "exited" | "crashed"
    edits,            \* number of user edits of the form in this session
    file,             \* meetingmind.ini: NoFile or the nine persisted fields
    plugin_config,    \* static meetingmind_config *plugin_config
    dock_widget,      \* static MeetingMindWidget *dock_widget (its fields)
    websocket,        \* static QWebSocket *websocket: 0 is nullptr, else a socket id
    sockets,          \* the QWebSocket objects on the heap, by id
    network_manager,  \* static QNetworkAccessManager *network_manager
    pending,          \* health-check replies in flight
    obs,              \* the host: current scene, mute state per source, recording
    scenes,           \* names the host resolves to a scene
    sources,          \* names the host resolves to an audio source
    calls,            \* plugin functions handle_meeting_event invoked, last event
    delivered,        \* text messages the current socket delivered
    dispatched        \* events passed to handle_meeting_event, current socket

cfgVars  == <<file, plugin_config, dock_widget>>
connVars == <<websocket, sockets, delivered, dispatched>>
netVars  == <<network_manager, pending>>
hostVars == <<obs, scenes, sources, calls>>
vars == <<phase, edits, file, plugin_config, dock_widget, websocket,
          sockets, network_manager, pending, obs, scenes, sources, calls,
          delivered, dispatched>>

---------------------------------------------------------------------------
(* Bounds of the model *)

MaxEdits    == 1   \* user edits of the form per session
SocketIds   == 2   \* identities of QWebSocket objects (reused once deleted)
MaxMsgs     == 1   \* inbound text messages per connection
MaxPending  == 1   \* health checks in flight
MaxLogged   == 2   \* log lines written by the handlers of one widget
MaxRows     == 2   \* rows of the log view a wrapped line takes
MaxAppended == 4   \* lines logged on top of an earlier log
WrappedHead == 3   \* oldest lines of an earlier log that may be wrapped

---------------------------------------------------------------------------
(* Program constants *)

SCENE_WELCOME      == "Meeting - Welcome"
SCENE_PRESENTATION == "Meeting - Presentation"
SCENE_DISCUSSION   == "Meeting - Discussion"
SCENE_SCREEN_SHARE == "Meeting - Screen Share"
SCENE_BREAK        == "Meeting - Break"
SCENE_ENDING       == "Meeting - Ending"

AUDIO_MICROPHONE == "Microphone"
AUDIO_DESKTOP    == "Desktop Audio"
AUDIO_MEETING    == "Meeting Audio"

DefaultPort    == 8080
DefaultTimeout == 10
SpinMin        == 1
SpinMax        == 65535
SpinInitial    == 8080
LogCap         == 100

\* A null pointer to a struct or object, and a null char *.
NULL    == [null |-> TRUE]
NullStr == "<nullptr>"
NoFile  == [exists |-> FALSE]

---------------------------------------------------------------------------
(* Inputs: the values a user types and a server sends *)

Urls       == {"", "localhost", "meet.example"}
Ports      == {8080, 9000}
ApiKeys    == {"", "key"}
MeetingIds == {"", "m1"}
CheckBoxes == {"auto_scene_switching_check", "auto_recording_check",
               "audio_management_check", "meeting_notifications_check"}

---------------------------------------------------------------------------
(* Configuration: load_config, save_config, on_config_changed *)

\* bzalloc(sizeof(meetingmind_config)): every field zero.
ZeroConfig ==
    [server_url |-> NullStr, server_port |-> 0, api_key |-> NullStr,
     auto_scene_switching |-> FALSE, auto_recording |-> FALSE,
     audio_management |-> FALSE, meeting_notifications |-> FALSE,
     connection_timeout |-> 0, meeting_id |-> NullStr, connected |-> FALSE]

\* A load_config that leaves the connected flag set.
load_config_connected(cfg, f) ==
    [ZeroConfig EXCEPT !.server_url = "localhost", !.server_port = DefaultPort,
                       !.api_key = "", !.meeting_id = "",
                       !.connection_timeout = DefaultTimeout,
                       !.connected = TRUE]

\* load_config(): allocate on first use, read the file if it opens, else
\* the defaults; the connected flag is always cleared.
load_config(cfg, f) ==
    LET c == IF cfg = NULL THEN ZeroConfig ELSE cfg
        loaded ==
            IF f # NoFile
            THEN [c EXCEPT !.server_url = f.server_url,
                           !.server_port = f.server_port,
                           !.api_key = f.api_key,
                           !.meeting_id = f.meeting_id,
                           !.auto_scene_switching = f.auto_scene_switching,
                           !.auto_recording = f.auto_recording,
                           !.audio_management = f.audio_management,
                           !.meeting_notifications = f.meeting_notifications,
                           !.connection_timeout = f.connection_timeout]
            ELSE [c EXCEPT !.server_url = "localhost",
                           !.server_port = DefaultPort,
                           !.api_key = "",
                           !.meeting_id = "",
                           !.auto_scene_switching = TRUE,
                           !.auto_recording = TRUE,
                           !.audio_management = TRUE,
                           !.meeting_notifications = TRUE,
                           !.connection_timeout = DefaultTimeout]
    IN  [loaded EXCEPT !.connected = FALSE]

\* A save_config that writes nothing.
save_nothing(cfg, f) == f

\* save_config(): the file after the call; nothing is written without a
\* configuration.  The connected flag is not persisted.
save_config(cfg, f) ==
    IF cfg = NULL THEN f
    ELSE [exists |-> TRUE,
          server_url |-> cfg.server_url,
          server_port |-> cfg.server_port,
          api_key |-> cfg.api_key,
          meeting_id |-> cfg.meeting_id,
          auto_scene_switching |-> cfg.auto_scene_switching,
          auto_recording |-> cfg.auto_recording,
          audio_management |-> cfg.audio_management,
          meeting_notifications |-> cfg.meeting_notifications,
          connection_timeout |-> cfg.connection_timeout]

\* on_config_changed(): the slot of every form field's change signal.  It
\* copies ALL eight form fields into the configuration and saves it.
\* s is [cfg, w, file]: the configuration, the widget and the file.
on_config_changed(s) ==
    IF s.cfg = NULL THEN s
    ELSE LET c == [s.cfg EXCEPT
                     !.server_url = s.w.server_url_edit,
                     !.server_port = s.w.server_port_spin,
                     !.api_key = s.w.api_key_edit,
                     !.meeting_id = s.w.meeting_id_edit,
                     !.auto_scene_switching = s.w.auto_scene_switching_check,
                     !.auto_recording = s.w.auto_recording_check,
                     !.audio_management = s.w.audio_management_check,
                     !.meeting_notifications = s.w.meeting_notifications_check]
         IN  [s EXCEPT !.cfg = c, !.file = save_config(c, s.file)]

---------------------------------------------------------------------------
(* The form's widgets.  Each setter emits its change signal only when the  *)
(* value changes; setup_ui connected every change signal to                *)
(* on_config_changed, which therefore runs inside the setter.              *)

\* QSpinBox::setValue with setRange(1, 65535): the value is clamped.
SpinClamp(v) == IF v < SpinMin THEN SpinMin ELSE IF v > SpinMax THEN SpinMax ELSE v

\* The setters below name their arguments' values x and v, so that each
\* argument is evaluated once.

\* QLineEdit::setText on one of the three line edits.
setText(s, edit, text) ==
    CHOOSE r \in {IF x.w[edit] = v THEN x
                  ELSE on_config_changed([x EXCEPT !.w[edit] = v]) :
                  x \in {s}, v \in {text}} : TRUE

\* QSpinBox::setValue on server_port_spin.
setValue(s, value) ==
    CHOOSE r \in {IF x.w.server_port_spin = v THEN x
                  ELSE on_config_changed([x EXCEPT !.w.server_port_spin = v]) :
                  x \in {s}, v \in {SpinClamp(value)}} : TRUE

\* QCheckBox::setChecked on one of the four check boxes.
setChecked(s, box, checked) ==
    CHOOSE r \in {IF x.w[box] = v THEN x
                  ELSE on_config_changed([x EXCEPT !.w[box] = v]) :
                  x \in {s}, v \in {checked}} : TRUE

\* setup_ui(): the widget tree as built, before anything is loaded into it.
setup_ui ==
    [server_url_edit |-> "", server_port_spin |-> SpinInitial,
     api_key_edit |-> "", meeting_id_edit |-> "",
     auto_scene_switching_check |-> FALSE, auto_recording_check |-> FALSE,
     audio_management_check |-> FALSE, meeting_notifications_check |-> FALSE,
     connect_button |-> TRUE, disconnect_button |-> TRUE,
     connection_status_label |-> "Disconnected",
     meeting_status_label |-> "No active meeting",
     recording_status_label |-> "Not recording",
     log_text |-> <<>> ]

\* A status refresh that sets the label and leaves the buttons alone.
update_connection_status_label_only(cfg, w) ==
    IF cfg # NULL /\ cfg.connected
    THEN [w EXCEPT !.connection_status_label = "Connected"]
    ELSE [w EXCEPT !.connection_status_label = "Disconnected"]

\* update_connection_status(): label and the two buttons follow the flag.
update_connection_status(cfg, w) ==
    IF cfg # NULL /\ cfg.connected
    THEN [w EXCEPT !.connection_status_label = "Connected",
                   !.connect_button = FALSE, !.disconnect_button = TRUE]
    ELSE [w EXCEPT !.connection_status_label = "Disconnected",
                   !.connect_button = TRUE, !.disconnect_button = FALSE]

\* The activity log is the QTextEdit's document: a sequence of blocks, one
\* per logged line.  A block is the line's text (without the timestamp),
\* the number of rows the view wraps it onto (the view wraps at the
\* widget's width), and whether its beginning was removed.
Line(text, rows) == [text |-> text, rows |-> rows, cut |-> FALSE]

\* QTextCursor::movePosition(Down, KeepAnchor, n) from row `row` of block
\* `block`: Down moves one ROW down, to the next row of a wrapped block
\* before it reaches the next block.  The result is [block, row].
RECURSIVE Down(_, _, _, _)
Down(doc, block, row, n) ==
    IF n = 0 THEN [block |-> block, row |-> row]
    ELSE IF row < doc[block].rows THEN Down(doc, block, row + 1, n - 1)
    ELSE IF block < Len(doc) THEN Down(doc, block + 1, 1, n - 1)
    ELSE [block |-> block, row |-> row]

\* QTextCursor::removeSelectedText() with the anchor at the document's
\* start: the blocks before the cursor's go, and so do the rows of the
\* cursor's block above the cursor.
removeSelectedText(doc, cursor) ==
    [i \in 1..(Len(doc) - cursor.block + 1) |->
        IF i = 1 /\ cursor.row > 1
        THEN [doc[cursor.block] EXCEPT !.rows = @ - (cursor.row - 1),
                                       !.cut = TRUE]
        ELSE doc[cursor.block + i - 1]]

\* log_message(): append the entry; when the document has more than 100
\* blocks, select from its start blockCount - 100 times Down and remove
\* the selection.
log_message(w, entry) ==
    CHOOSE r \in
        {IF Len(doc) > LogCap
         THEN [w EXCEPT !.log_text =
                  removeSelectedText(doc, Down(doc, 1, 1, Len(doc) - LogCap))]
         ELSE [w EXCEPT !.log_text = doc] :
         doc \in {Append(w.log_text, entry)}} : TRUE

\* A null char * shown in the form: the constructor's (p ? p : dflt).
OrElse(p, dflt) == IF p = NullStr THEN dflt ELSE p

\* The eight form fields in the order the constructor fills them, and the
\* configuration field each one shows.
FormFields ==
    <<"server_url_edit", "server_port_spin", "api_key_edit", "meeting_id_edit",
      "auto_scene_switching_check", "auto_recording_check",
      "audio_management_check", "meeting_notifications_check">>

ConfigField ==
    [server_url_edit |-> "server_url", server_port_spin |-> "server_port",
     api_key_edit |-> "api_key", meeting_id_edit |-> "meeting_id",
     auto_scene_switching_check |-> "auto_scene_switching",
     auto_recording_check |-> "auto_recording",
     audio_management_check |-> "audio_management",
     meeting_notifications_check |-> "meeting_notifications"]

\* One statement of the constructor's block "Update UI with loaded
\* config": the field is set to the value the configuration holds NOW.
ShowConfigField(s, field) ==
    CHOOSE r \in
        {IF field = "server_url_edit"
            THEN setText(x, field, OrElse(x.cfg.server_url, "localhost"))
         ELSE IF field = "server_port_spin"
            THEN setValue(x, x.cfg.server_port)
         ELSE IF field \in {"api_key_edit", "meeting_id_edit"}
            THEN setText(x, field, OrElse(x.cfg[ConfigField[field]], ""))
         ELSE setChecked(x, field, x.cfg[ConfigField[field]]) :
         x \in {s}} : TRUE

\* The block as a whole: its statements in order.
RECURSIVE ShowConfig(_, _)
ShowConfig(s, fields) ==
    IF fields = <<>> THEN s
    ELSE ShowConfig(ShowConfigField(s, Head(fields)), Tail(fields))

\* MeetingMindWidget::MeetingMindWidget(): build the form, load the
\* configuration again, copy it field by field into the form (each copy
\* that changes a field runs on_config_changed), refresh the status.
\* The result is [cfg, w, file].
MeetingMindWidget(cfg, f) ==
    CHOOSE r \in
        {[x EXCEPT !.w = update_connection_status(x.cfg, x.w)] :
         x \in {ShowConfig([cfg |-> load_config(cfg, f), w |-> setup_ui,
                            file |-> f],
                           IF load_config(cfg, f) # NULL THEN FormFields ELSE <<>>)}} :
        TRUE

---------------------------------------------------------------------------
(* The WebSocket: connect_to_server, disconnect_from_server and the slots  *)

\* The Authorization header of a request: none without an API key.
NoHeader == <<>>
Bearer(key) == <<"Bearer", key>>

NoSocket == [state |-> "free", auth |-> NoHeader, sent |-> <<>>]

\* The slots attached to the signals of the QWebSocket the plugin creates.
\* connect_to_server() constructs the socket and opens it and never calls
\* QObject::connect on it; setup_ui() connects only buttons and form
\* fields.  No slot is attached to connected(), disconnected() or
\* textMessageReceived().
websocket_slots == {}

Emits(signal) == signal \in websocket_slots

\* QWebSocket::close(): an open or opening socket starts closing; its
\* disconnected() signal is emitted later, from the event loop.
close(sock) ==
    IF sock.state \in {"connecting", "open"}
    THEN [sock EXCEPT !.state = "closing"] ELSE sock

\* new QWebSocket(): an object that is none of those on the heap.
NewSocket(socks) ==
    CHOOSE i \in DOMAIN socks :
        /\ socks[i].state = "free"
        /\ \A j \in 1..(i - 1) : socks[j].state # "free"

\* A delete that leaves the object on the heap.
Leak(sock) == sock

\* delete on a QWebSocket: the object leaves the heap.
delete(sock) == NoSocket

\* An open() that completes the handshake before it returns.
openAtOnce(auth) == [state |-> "open", auth |-> auth, sent |-> <<>>]

\* QWebSocket::open(request): the handshake starts; connected() or
\* disconnected() is emitted later, from the event loop.
open(auth) == [state |-> "connecting", auth |-> auth, sent |-> <<>>]

\* A connect_to_server that sets the header whatever the API key is.
connect_to_server_always_bearer(cfg, ws, socks) ==
    IF cfg = NULL THEN [websocket |-> ws, sockets |-> socks]
    ELSE CHOOSE r \in
            {[websocket |-> new,
              sockets |-> [freed EXCEPT ![new] = open(Bearer(cfg.api_key))]] :
             new \in {NewSocket(socks)},
             freed \in {IF ws # 0
                        THEN [socks EXCEPT ![ws] = delete(close(@))]
                        ELSE socks}} : TRUE

\* connect_to_server(): close and delete the socket there is, create a new
\* one and open it, with the bearer header when an API key is configured.
\* The result is [websocket, sockets].
connect_to_server(cfg, ws, socks) ==
    IF cfg = NULL THEN [websocket |-> ws, sockets |-> socks]
    ELSE LET freed == IF ws # 0
                      THEN [socks EXCEPT ![ws] = delete(close(@))]
                      ELSE socks
             new == NewSocket(socks)
             auth == IF cfg.api_key # NullStr /\ cfg.api_key # ""
                     THEN Bearer(cfg.api_key) ELSE NoHeader
         IN  [websocket |-> new,
              sockets |-> [freed EXCEPT ![new] = open(auth)]]

\* disconnect_from_server(): close the socket, keep the object.
disconnect_from_server(ws, socks) ==
    IF ws # 0 THEN [socks EXCEPT ![ws] = close(@)] ELSE socks

\* The subscribe message of on_websocket_connected.
Subscribe(meeting_id) == [type |-> "subscribe", meeting_id |-> meeting_id]

\* on_websocket_connected(): set the flag, refresh the status, and
\* subscribe when the form holds a meeting identifier.
\* c is [cfg, w, sockets]; ws is the global websocket.
on_websocket_connected(c, ws) ==
    LET cfg == IF c.cfg # NULL THEN [c.cfg EXCEPT !.connected = TRUE] ELSE c.cfg
        w1 == update_connection_status(cfg,
                  log_message(c.w, Line("Connected to MeetingMind WebSocket", 1)))
    IN  IF w1.meeting_id_edit # ""
        THEN [cfg |-> cfg,
              w |-> log_message(w1, Line("Subscribed to meeting", 1)),
              sockets |-> [c.sockets EXCEPT ![ws].sent =
                              Append(@, Subscribe(w1.meeting_id_edit))]]
        ELSE [cfg |-> cfg, w |-> w1, sockets |-> c.sockets]

\* on_websocket_disconnected(): clear the flag, refresh the status.
on_websocket_disconnected(c) ==
    LET cfg == IF c.cfg # NULL THEN [c.cfg EXCEPT !.connected = FALSE] ELSE c.cfg
    IN  [c EXCEPT !.cfg = cfg,
                  !.w = update_connection_status(cfg,
                            log_message(c.w, Line("Disconnected from MeetingMind WebSocket", 1)))]


---------------------------------------------------------------------------
(* The host's control surface and the event dispatcher.  h is              *)
(* [obs, calls]: the host's state and the plugin functions invoked so far, *)
(* each with whether it reached the host call that changes state.          *)

Scenes  == {SCENE_WELCOME, SCENE_PRESENTATION, SCENE_DISCUSSION,
            SCENE_SCREEN_SHARE, SCENE_BREAK, SCENE_ENDING}
Sources == {AUDIO_MICROPHONE, AUDIO_DESKTOP, AUDIO_MEETING}

Call(fn, name, muted, applied) ==
    [fn |-> fn, name |-> name, muted |-> muted, applied |-> applied]

\* A switch_to_scene that falls back to the first scene it finds.
switch_to_scene_or_any(h, scene_name) ==
    IF scene_name \in scenes
    THEN [obs |-> [h.obs EXCEPT !.current_scene = scene_name],
          calls |-> Append(h.calls, Call("switch_to_scene", scene_name, FALSE, TRUE))]
    ELSE [obs |-> [h.obs EXCEPT !.current_scene =
                      IF scenes = {} THEN @ ELSE CHOOSE s \in scenes : TRUE],
          calls |-> Append(h.calls, Call("switch_to_scene", scene_name, FALSE, FALSE))]

\* switch_to_scene(): resolve the name; switch when it resolves, only log
\* a warning when it does not.
switch_to_scene(h, scene_name) ==
    IF scene_name \in scenes
    THEN [obs |-> [h.obs EXCEPT !.current_scene = scene_name],
          calls |-> Append(h.calls, Call("switch_to_scene", scene_name, FALSE, TRUE))]
    ELSE [h EXCEPT !.calls =
              Append(@, Call("switch_to_scene", scene_name, FALSE, FALSE))]

\* set_source_mute(): resolve the name; set the mute state when it resolves.
set_source_mute(h, source_name, muted) ==
    IF source_name \in sources
    THEN [obs |-> [h.obs EXCEPT !.muted[source_name] = muted],
          calls |-> Append(h.calls, Call("set_source_mute", source_name, muted, TRUE))]
    ELSE [h EXCEPT !.calls =
              Append(@, Call("set_source_mute", source_name, muted, FALSE))]

\* A start_recording that asks the host whatever it is doing.
start_recording_unguarded(h) ==
    [obs |-> [h.obs EXCEPT !.recording = TRUE],
     calls |-> Append(h.calls, Call("start_recording", "", FALSE, TRUE))]

\* start_recording(): ask the host to record unless it already does.
start_recording(h) ==
    IF ~h.obs.recording
    THEN [obs |-> [h.obs EXCEPT !.recording = TRUE],
          calls |-> Append(h.calls, Call("start_recording", "", FALSE, TRUE))]
    ELSE [h EXCEPT !.calls = Append(@, Call("start_recording", "", FALSE, FALSE))]

\* stop_recording(): ask the host to stop if it records.
stop_recording(h) ==
    IF h.obs.recording
    THEN [obs |-> [h.obs EXCEPT !.recording = FALSE],
          calls |-> Append(h.calls, Call("stop_recording", "", FALSE, TRUE))]
    ELSE [h EXCEPT !.calls = Append(@, Call("stop_recording", "", FALSE, FALSE))]

\* QString::operator==(const char *): exact, case-sensitive equality.
QStringEqualsIgnoringCase(a, b) ==
    \/ a = b
    \/ a = "MEETING_STARTED" /\ b = "meeting_started"
QStringEquals(a, b) == a = b

\* if (flag) { f(...); }: the call is made exactly when the toggle is on,
\* whatever the calls before it did.  r is the state after the call.
GateIgnoringToggle(flag, h, r) == r
GateUnlessFailedBefore(flag, h, r) ==
    IF flag /\ ~(h.calls # <<>> /\ ~h.calls[Len(h.calls)].applied) THEN r ELSE h
GateUnlessRecording(flag, h, r) == IF flag /\ ~h.obs.recording THEN r ELSE h
Gate(flag, h, r) == IF flag THEN r ELSE h

\* handle_meeting_event(): the if / else-if chain over the event type; the
\* payload is not read.
handle_meeting_event(h, cfg, event_type, data) ==
    IF cfg = NULL THEN h
    ELSE IF QStringEquals(event_type, "meeting_started") THEN
        LET h1 == Gate(cfg.auto_scene_switching, h, switch_to_scene(h, SCENE_WELCOME))
            h2 == Gate(cfg.auto_recording, h1, start_recording(h1))
        IN  Gate(cfg.audio_management, h2, set_source_mute(h2, AUDIO_MICROPHONE, FALSE))
    ELSE IF QStringEquals(event_type, "meeting_ended") THEN
        LET h1 == Gate(cfg.auto_scene_switching, h, switch_to_scene(h, SCENE_ENDING))
        IN  Gate(cfg.auto_recording, h1, stop_recording(h1))
    ELSE IF QStringEquals(event_type, "presentation_started") THEN
        Gate(cfg.auto_scene_switching, h, switch_to_scene(h, SCENE_PRESENTATION))
    ELSE IF QStringEquals(event_type, "screen_share_started") THEN
        LET h1 == Gate(cfg.auto_scene_switching, h, switch_to_scene(h, SCENE_SCREEN_SHARE))
        IN  Gate(cfg.audio_management, h1, set_source_mute(h1, AUDIO_DESKTOP, FALSE))
    ELSE IF QStringEquals(event_type, "screen_share_ended") THEN
        Gate(cfg.auto_scene_switching, h, switch_to_scene(h, SCENE_DISCUSSION))
    ELSE IF QStringEquals(event_type, "break_started") THEN
        LET h1 == Gate(cfg.auto_scene_switching, h, switch_to_scene(h, SCENE_BREAK))
        IN  Gate(cfg.audio_management, h1, set_source_mute(h1, AUDIO_MICROPHONE, TRUE))
    ELSE IF QStringEquals(event_type, "break_ended") THEN
        LET h1 == Gate(cfg.auto_scene_switching, h, switch_to_scene(h, SCENE_DISCUSSION))
        IN  Gate(cfg.audio_management, h1, set_source_mute(h1, AUDIO_MICROPHONE, FALSE))
    ELSE h

---------------------------------------------------------------------------
(* Inbound messages.  A text message is [json, type, data]: json says      *)
(* whether the text parses to an object, an array or not at all; type and  *)
(* data are the values of the object's keys, JsonAbsent for a missing key  *)
(* and JsonNumber for a value that is no string and no object.             *)

JsonAbsent == "<absent>"
JsonNumber == "<number>"
EmptyObject == "{}"

Message(json, type, data) == [json |-> json, type |-> type, data |-> data]

\* QJsonDocument::fromJson(...).object(): the empty object unless the text
\* is a JSON object.
object(message) ==
    IF message.json = "object" THEN message
    ELSE Message("object", JsonAbsent, JsonAbsent)

\* QJsonValue::toString(): the empty string unless the value is a string.
toString(v) == IF v \in {JsonAbsent, JsonNumber} THEN "" ELSE v

\* QJsonValue::toObject(): the empty object unless the value is an object.
toObject(v) == IF v \in {JsonAbsent, JsonNumber} THEN EmptyObject ELSE v

Event(type, data) == [type |-> type, data |-> data]

\* on_websocket_message(): decode, log, dispatch.
\* m is [w, h, dispatched]; the result has the same shape.
on_websocket_message(m, cfg, message) ==
    LET obj == object(message)
        event_type == toString(obj.type)
        event_data == toObject(obj.data)
    IN  [w |-> log_message(m.w, Line("Received event", 1)),
         h |-> handle_meeting_event(m.h, cfg, event_type, event_data),
         dispatched |-> Append(m.dispatched, Event(event_type, event_data))]


---------------------------------------------------------------------------
(* The initial state: a host process that has not loaded the module, on a  *)
(* machine where the plugin never ran (no configuration file).             *)

FreshSockets == [i \in 1..SocketIds |-> NoSocket]

HostAtRest ==
    [current_scene |-> "Studio",
     muted |-> [s \in Sources |-> FALSE],
     recording |-> FALSE]

Init ==
    /\ phase = "unloaded"
    /\ edits = 0
    /\ file = NoFile
    /\ plugin_config = NULL
    /\ dock_widget = NULL
    /\ websocket = 0
    /\ sockets = FreshSockets
    /\ network_manager = "nullptr"
    /\ pending = <<>>
    /\ obs = HostAtRest
    /\ scenes = Scenes
    /\ sources = Sources
    /\ calls = <<>>
    /\ delivered = <<>>
    /\ dispatched = <<>>

---------------------------------------------------------------------------
(* Module lifecycle *)

\* register_dock(): construct the widget.  [cfg, w, file].
register_dock(cfg, f) == MeetingMindWidget(cfg, f)

\* obs_module_load(): load_config(), then register_dock().
obs_module_load ==
    /\ phase = "unloaded"
    /\ \E s \in {register_dock(load_config(plugin_config, file), file)} :
           /\ plugin_config' = s.cfg
           /\ dock_widget' = s.w
           /\ file' = s.file
    /\ phase' = "running"
    /\ UNCHANGED <<edits, connVars, netVars, hostVars>>

\* MeetingMindWidget::~MeetingMindWidget(): close and delete the socket and
\* clear the pointer.  [websocket, sockets].
Destroy_MeetingMindWidget(ws, socks) ==
    IF ws # 0
    THEN [websocket |-> 0,
          sockets |-> [socks EXCEPT ![ws] = delete(close(@))]]
    ELSE [websocket |-> ws, sockets |-> socks]

\* unregister_dock(): delete the widget, if any; Qt deletes the widget's
\* children with it, among them the QNetworkAccessManager that
\* on_test_connection_clicked created with the widget as parent, while the
\* static pointer to it keeps its value.
\* [websocket, sockets, network_manager, dock_widget].
unregister_dock(w, ws, socks, nm) ==
    IF w # NULL
    THEN LET d == Destroy_MeetingMindWidget(ws, socks)
         IN  [websocket |-> d.websocket, sockets |-> d.sockets,
              network_manager |-> IF nm = "object" THEN "dangling" ELSE nm,
              dock_widget |-> NULL]
    ELSE [websocket |-> ws, sockets |-> socks, network_manager |-> nm,
          dock_widget |-> w]

\* obs_module_unload(): disconnect, unregister the dock, free the
\* configuration, delete what the socket and network manager pointers
\* refer to.  Deleting through a dangling pointer is undefined behaviour:
\* the process either goes on or crashes.
obs_module_unload ==
    /\ phase = "running"
    /\ LET u == unregister_dock(dock_widget, websocket,
                    disconnect_from_server(websocket, sockets), network_manager)
       IN  /\ dock_widget' = u.dock_widget
           /\ plugin_config' = NULL
           /\ websocket' = 0
           /\ sockets' = IF u.websocket # 0
                         THEN [u.sockets EXCEPT ![u.websocket] = delete(@)]
                         ELSE u.sockets
           /\ network_manager' = "nullptr"
           /\ IF u.network_manager = "dangling"
              THEN phase' \in {"exited", "crashed"}
              ELSE phase' = "exited"
    /\ pending' = <<>>
    /\ delivered' = <<>>
    /\ dispatched' = <<>>
    /\ UNCHANGED <<edits, file, hostVars>>

\* The host is started again: statics are initialised anew, the file stays.
HostRestart ==
    /\ phase \in {"exited", "crashed"}
    /\ phase' = "unloaded"
    /\ edits' = 0
    /\ plugin_config' = NULL
    /\ dock_widget' = NULL
    /\ websocket' = 0
    /\ sockets' = FreshSockets
    /\ network_manager' = "nullptr"
    /\ pending' = <<>>
    /\ calls' = <<>>
    /\ delivered' = <<>>
    /\ dispatched' = <<>>
    /\ UNCHANGED <<file, obs, scenes, sources>>

---------------------------------------------------------------------------
(* The user edits the form: the field changes, its change signal runs      *)
(* on_config_changed.                                                      *)

FormState == [cfg |-> plugin_config, w |-> dock_widget, file |-> file]

Edited(s) ==
    /\ plugin_config' = s.cfg
    /\ dock_widget' = s.w
    /\ file' = s.file
    /\ edits' = edits + 1
    /\ UNCHANGED <<phase, connVars, netVars, hostVars>>

CanEdit == phase = "running" /\ edits < MaxEdits

EditServerUrl ==
    /\ CanEdit
    /\ \E v \in Urls \ {dock_widget.server_url_edit} :
          Edited(setText(FormState, "server_url_edit", v))

EditServerPort ==
    /\ CanEdit
    /\ \E v \in Ports \ {dock_widget.server_port_spin} :
          Edited(setValue(FormState, v))

EditApiKey ==
    /\ CanEdit
    /\ \E v \in ApiKeys \ {dock_widget.api_key_edit} :
          Edited(setText(FormState, "api_key_edit", v))

EditMeetingId ==
    /\ CanEdit
    /\ \E v \in MeetingIds \ {dock_widget.meeting_id_edit} :
          Edited(setText(FormState, "meeting_id_edit", v))

ToggleCheckBox ==
    /\ CanEdit
    /\ \E box \in CheckBoxes :
          Edited(setChecked(FormState, box, ~dock_widget[box]))


---------------------------------------------------------------------------
(* Buttons.  A disabled QPushButton emits no clicked() signal.             *)

\* on_connect_clicked(): connect_to_server().
on_connect_clicked ==
    /\ phase = "running"
    /\ dock_widget.connect_button
    /\ \E i \in DOMAIN sockets : sockets[i].state = "free"
    /\ LET r == connect_to_server(plugin_config, websocket, sockets)
       IN  /\ websocket' = r.websocket
           /\ sockets' = r.sockets
    /\ delivered' = <<>>
    /\ dispatched' = <<>>
    /\ UNCHANGED <<phase, edits, cfgVars, netVars, hostVars>>

\* on_disconnect_clicked(): disconnect_from_server().
on_disconnect_clicked ==
    /\ phase = "running"
    /\ dock_widget.disconnect_button
    /\ sockets' = disconnect_from_server(websocket, sockets)
    /\ UNCHANGED <<phase, edits, cfgVars, websocket, delivered,
                   dispatched, netVars, hostVars>>

\* What a health check's reply can be: a network error or none, and a
\* body whose status field is "healthy", something else, or missing.
Replies == {[error |-> TRUE, status |-> JsonAbsent],
            [error |-> TRUE, status |-> "healthy"],
            [error |-> FALSE, status |-> "healthy"],
            [error |-> FALSE, status |-> "degraded"],
            [error |-> FALSE, status |-> JsonAbsent]}

\* on_test_connection_clicked(): log, create the network manager on first
\* use (a child of the widget), send GET /api/health with the bearer
\* header when the API key field is not empty.  The request in flight
\* carries the reply the server will give it.  The log of one widget is
\* let grow to MaxLogged lines: a test is started while its line and the
\* lines of the replies still due fit.
on_test_connection_clicked ==
    /\ phase = "running"
    /\ Len(pending) < MaxPending
    /\ Len(dock_widget.log_text) + Len(pending) + 2 <= MaxLogged
    /\ dock_widget' = log_message(dock_widget, Line("Testing connection", 1))
    /\ network_manager' = IF network_manager = "nullptr" THEN "object"
                          ELSE network_manager
    /\ \E reply \in Replies :
          pending' = Append(pending,
                       [auth |-> IF dock_widget.api_key_edit # ""
                                 THEN Bearer(dock_widget.api_key_edit)
                                 ELSE NoHeader,
                        reply |-> reply])
    /\ UNCHANGED <<phase, edits, file, plugin_config, connVars, hostVars>>

\* A report that looks at the body before it looks at the error.
ReportBodyFirst(reply) ==
    IF toString(reply.status) = "healthy"
    THEN Line("Connection test successful", 1)
    ELSE IF ~reply.error
         THEN Line("Server responded but reported unhealthy status", 1)
         ELSE Line("Connection test failed", 1)

\* What the lambda connected to QNetworkReply::finished logs for a reply.
Report(reply) ==
    IF ~reply.error
    THEN IF toString(reply.status) = "healthy"
         THEN Line("Connection test successful", 1)
         ELSE Line("Server responded but reported unhealthy status", 1)
    ELSE Line("Connection test failed", 1)

\* The lambda connected to QNetworkReply::finished.
on_reply_finished ==
    /\ phase = "running"
    /\ pending # <<>>
    /\ dock_widget' = log_message(dock_widget, Report(Head(pending).reply))
    /\ pending' = Tail(pending)
    /\ UNCHANGED <<phase, edits, file, plugin_config, connVars,
                   network_manager, hostVars>>

\* A status timer that also reconnects a closed socket.
on_status_update_retrying ==
    /\ phase = "running"
    /\ dock_widget' =
          [dock_widget EXCEPT
             !.recording_status_label =
                 IF obs.recording THEN "Recording" ELSE "Not recording",
             !.meeting_status_label =
                 IF plugin_config # NULL /\ plugin_config.connected
                 THEN "Connected to meeting" ELSE "No active meeting"]
    /\ IF websocket # 0 /\ sockets[websocket].state = "closed"
       THEN \E r \in {connect_to_server(plugin_config, websocket, sockets)} :
               websocket' = r.websocket /\ sockets' = r.sockets
       ELSE UNCHANGED <<websocket, sockets>>
    /\ UNCHANGED <<phase, edits, file, plugin_config, delivered, dispatched,
                   netVars, hostVars>>

\* A status timer that also sets the connected flag from the socket's
\* state.
on_status_update_syncing ==
    /\ phase = "running"
    /\ dock_widget' =
          [dock_widget EXCEPT
             !.recording_status_label =
                 IF obs.recording THEN "Recording" ELSE "Not recording",
             !.meeting_status_label =
                 IF plugin_config # NULL /\ plugin_config.connected
                 THEN "Connected to meeting" ELSE "No active meeting"]
    /\ plugin_config' =
          [plugin_config EXCEPT
             !.connected = websocket # 0 /\ sockets[websocket].state = "open"]
    /\ UNCHANGED <<phase, edits, file, connVars, netVars, hostVars>>

\* on_status_update(): the 5 s timer's slot.
on_status_update ==
    /\ phase = "running"
    /\ dock_widget' =
          [dock_widget EXCEPT
             !.recording_status_label =
                 IF obs.recording THEN "Recording" ELSE "Not recording",
             !.meeting_status_label =
                 IF plugin_config # NULL /\ plugin_config.connected
                 THEN "Connected to meeting" ELSE "No active meeting"]
    /\ UNCHANGED <<phase, edits, file, plugin_config, connVars,
                   netVars, hostVars>>

---------------------------------------------------------------------------
(* What the host's event loop brings: the socket's signals.  Each is       *)
(* delivered to the slots attached to it.                                  *)

SlotState == [cfg |-> plugin_config, w |-> dock_widget, sockets |-> sockets]

Live(state) == websocket # 0 /\ sockets[websocket].state \in state

\* The handshake succeeded: the socket is open and emits connected().
SocketOpened ==
    /\ phase = "running"
    /\ Live({"connecting"})
    /\ LET c == [SlotState EXCEPT !.sockets[websocket].state = "open"]
           r == IF Emits("connected") THEN on_websocket_connected(c, websocket) ELSE c
       IN  /\ plugin_config' = r.cfg
           /\ dock_widget' = r.w
           /\ sockets' = r.sockets
    /\ UNCHANGED <<phase, edits, file, websocket, delivered,
                   dispatched, netVars, hostVars>>

\* The handshake failed, the peer closed, or a close() completed: the
\* socket is unconnected and emits disconnected().
SocketClosed ==
    /\ phase = "running"
    /\ Live({"connecting", "open", "closing"})
    /\ LET c == [SlotState EXCEPT !.sockets[websocket].state = "closed"]
           r == IF Emits("disconnected") THEN on_websocket_disconnected(c) ELSE c
       IN  /\ plugin_config' = r.cfg
           /\ dock_widget' = r.w
           /\ sockets' = r.sockets
    /\ UNCHANGED <<phase, edits, file, websocket, delivered,
                   dispatched, netVars, hostVars>>

\* The messages a server sends in the lifecycle model.
WireMessages == {Message("object", "meeting_started", EmptyObject),
                 Message("invalid", JsonAbsent, JsonAbsent)}

\* A text frame arrived: the open socket emits textMessageReceived().
SocketTextMessage ==
    /\ phase = "running"
    /\ Live({"open"})
    /\ Len(delivered) < MaxMsgs
    /\ \E message \in WireMessages :
          /\ delivered' = Append(delivered, message)
          /\ LET m == [w |-> dock_widget, h |-> [obs |-> obs, calls |-> <<>>],
                       dispatched |-> dispatched]
                 r == IF Emits("textMessageReceived")
                      THEN on_websocket_message(m, plugin_config, message)
                      ELSE [m EXCEPT !.h.calls = calls]
             IN  /\ dock_widget' = r.w
                 /\ obs' = r.h.obs
                 /\ calls' = r.h.calls
                 /\ dispatched' = r.dispatched
    /\ UNCHANGED <<phase, edits, file, plugin_config, websocket,
                   sockets, netVars, scenes, sources>>

\* The user starts or stops recording in the host itself.
HostRecording ==
    /\ obs' = [obs EXCEPT !.recording = ~@]
    /\ UNCHANGED <<phase, edits, cfgVars, connVars, netVars, scenes,
                   sources, calls>>

---------------------------------------------------------------------------
(* The plugin in its host.  on_disconnect_clicked is no disjunct: the      *)
(* Disconnect button is enabled only by update_connection_status with the  *)
(* connected flag set, which only on_websocket_connected sets, and that    *)
(* slot is attached to nothing (DisconnectDisabled states it).             *)

Next ==
    \/ obs_module_load
    \/ obs_module_unload
    \/ HostRestart
    \/ EditServerUrl
    \/ EditServerPort
    \/ EditApiKey
    \/ EditMeetingId
    \/ ToggleCheckBox
    \/ on_connect_clicked
    \/ on_test_connection_clicked
    \/ on_reply_finished
    \/ on_status_update
    \/ SocketOpened
    \/ SocketClosed
    \/ SocketTextMessage
    \/ HostRecording

Spec == Init /\ [][Next]_vars

\* The Disconnect button is never enabled in a state between two handlers.
DisconnectDisabled == phase = "running" => ~dock_widget.disconnect_button

\* The event loop runs what is due: the 5 s status timer and the finished()
\* signal of a health check's reply.  Nothing obliges the user or the server
\* to act.
FairSpec == Spec /\ WF_vars(on_status_update) /\ WF_vars(on_reply_finished)

---------------------------------------------------------------------------
(* Claims about configuration and connection, checked under Spec *)

\* A startup: obs_module_load ran.
Startup == phase = "unloaded" /\ phase' = "running"

\* The configuration and the form hold the persisted values of f.
HoldsFile(cfg, w, f) ==
    /\ cfg.server_url = f.server_url /\ w.server_url_edit = f.server_url
    /\ cfg.server_port = f.server_port /\ w.server_port_spin = f.server_port
    /\ cfg.api_key = f.api_key /\ w.api_key_edit = f.api_key
    /\ cfg.meeting_id = f.meeting_id /\ w.meeting_id_edit = f.meeting_id
    /\ cfg.auto_scene_switching = f.auto_scene_switching
    /\ w.auto_scene_switching_check = f.auto_scene_switching
    /\ cfg.auto_recording = f.auto_recording
    /\ w.auto_recording_check = f.auto_recording
    /\ cfg.audio_management = f.audio_management
    /\ w.audio_management_check = f.audio_management
    /\ cfg.meeting_notifications = f.meeting_notifications
    /\ w.meeting_notifications_check = f.meeting_notifications

\* C4: values entered through the form and persisted by save_config are
\* the values the configuration and the form hold after a later startup.
C4_ConfigRoundTrip ==
    [][(Startup /\ file.exists) => HoldsFile(plugin_config', dock_widget', file)]_vars

\* Every socket object on the heap is the one the plugin references.
OneSocket ==
    \A i \in DOMAIN sockets : sockets[i].state # "free" => i = websocket

\* A Connect click while a socket exists.
Reconnect == websocket # 0 /\ websocket' # 0 /\ websocket' # websocket

\* C5: at most one socket object exists, and a Connect click while one
\* exists destroys exactly that one and creates exactly one new socket,
\* the only one referenced afterwards.
C5_AtMostOneSocket ==
    /\ []OneSocket
    /\ [][Reconnect =>
            /\ sockets'[websocket].state = "free"
            /\ sockets'[websocket'].state = "connecting"
            /\ \A i \in DOMAIN sockets \ {websocket'} :
                  sockets'[i].state = "free"]_vars

\* A second socket replaced the first and is the only one on the heap.
C5_Witness ==
    /\ websocket = 2
    /\ sockets[2].state \in {"connecting", "open"}
    /\ sockets[1].state = "free"

\* C6: when the socket of a Connect click has opened, exactly one subscribe
\* message carrying the configured meeting identifier was sent on it, and
\* no inbound event is dispatched before it.
C6_SubscribeOnOpen ==
    Live({"open"}) =>
        sockets[websocket].sent = <<Subscribe(plugin_config.meeting_id)>>

\* C7: after a Connect click whose socket opens the connected flag
\* eventually becomes true, and after the socket closes it eventually
\* becomes false.
C7_FlagFollowsSocket ==
    /\ Live({"open"}) ~> (plugin_config # NULL /\ plugin_config.connected)
    /\ Live({"closed"}) ~> (plugin_config = NULL \/ ~plugin_config.connected)

\* The connection state, as the socket has it.
ConnectionState(ws, socks) ==
    IF ws = 0 THEN "Disconnected"
    ELSE IF socks[ws].state = "connecting" THEN "Connecting"
    ELSE IF socks[ws].state = "open" THEN "Connected"
    ELSE "Disconnected"

Transition ==
    <<ConnectionState(websocket, sockets), ConnectionState(websocket', sockets')>>

Cycle == {<<"Disconnected", "Connecting">>, <<"Connecting", "Connected">>,
          <<"Connected", "Disconnected">>}

\* C8 as stated: the connection state changes only along the cycle
\* Disconnected -> Connecting -> Connected -> Disconnected.
C8_OnlyTheCycle ==
    [][Transition[1] # Transition[2] => Transition \in Cycle]_vars

\* C8: the connection state changes only along the cycle or by a failed
\* handshake or unload (Connecting -> Disconnected) or by a Connect click
\* on an open connection (Connected -> Connecting); Connecting is entered
\* only by a Connect click and Connected only from Connecting.
C8_CycleWithFailureAndReplace ==
    [][Transition[1] # Transition[2] =>
         /\ Transition \in Cycle \cup {<<"Connecting", "Disconnected">>,
                                       <<"Connected", "Connecting">>}
         /\ (Transition[2] = "Connecting" =>
                websocket' # websocket /\ websocket' # 0)]_vars

\* A socket was replaced by a Connect click and the new socket
\* failed its handshake.
C8_Witness ==
    /\ websocket = 2
    /\ sockets[2].state = "closed"
    /\ sockets[1].state = "free"

\* What on_websocket_message passes on for a text message.
Decoded(message) ==
    Event(toString(object(message).type), toObject(object(message).data))

\* C9: every text message the current connection delivered was passed to
\* handle_meeting_event exactly once, with its type and data, in arrival
\* order.
C9_EveryMessageDispatchedOnce ==
    /\ Len(dispatched) = Len(delivered)
    /\ \A i \in 1..Len(delivered) : dispatched[i] = Decoded(delivered[i])

\* C10: without a configuration file, after startup the configuration
\* holds the defaults.
C10_DefaultsWithoutFile ==
    [][(Startup /\ ~file.exists) =>
          plugin_config' = [server_url |-> "localhost", server_port |-> 8080,
                            api_key |-> "", meeting_id |-> "",
                            auto_scene_switching |-> TRUE,
                            auto_recording |-> TRUE,
                            audio_management |-> TRUE,
                            meeting_notifications |-> TRUE,
                            connection_timeout |-> 10,
                            connected |-> FALSE]]_vars



\* The file holds the configuration's nine persisted fields.
Persisted(cfg, f) ==
    /\ f.exists
    /\ f.server_url = cfg.server_url
    /\ f.server_port = cfg.server_port
    /\ f.api_key = cfg.api_key
    /\ f.meeting_id = cfg.meeting_id
    /\ f.auto_scene_switching = cfg.auto_scene_switching
    /\ f.auto_recording = cfg.auto_recording
    /\ f.audio_management = cfg.audio_management
    /\ f.meeting_notifications = cfg.meeting_notifications
    /\ f.connection_timeout = cfg.connection_timeout

\* A form field changed: by a user edit, or in the constructor.
FormChanged ==
    \/ phase = "running" /\ phase' = "running" /\ edits' # edits
    \/ Startup /\ \E field \in DOMAIN ConfigField :
                      dock_widget'[field] # setup_ui[field]

\* C11: after every change of a form field (each run of on_config_changed)
\* the persisted configuration equals the in-memory configuration in all
\* nine persisted fields.
C11_PersistedEqualsInMemory ==
    [][FormChanged => Persisted(plugin_config', file')]_vars

\* The user changed the port and the API key was left alone: file and
\* configuration both hold the new port.
C11_Witness ==
    /\ phase = "running"
    /\ edits = 1
    /\ dock_widget.server_port_spin = 9000
    /\ plugin_config.server_port = 9000
    /\ file.exists /\ file.server_port = 9000

\* C13: whenever one form field changes value, by a user edit or by the
\* constructor populating the form from the loaded configuration, only the
\* configuration field that corresponds to it changes: a configuration
\* field whose form field kept its value keeps its own.
C13_OnlyOwnFieldChanges ==
    [][/\ (phase = "running" /\ phase' = "running" /\ edits' # edits) =>
            \A field \in DOMAIN ConfigField :
               dock_widget'[field] = dock_widget[field]
                  => plugin_config'[ConfigField[field]]
                        = plugin_config[ConfigField[field]]
       /\ Startup =>
            \A field \in DOMAIN ConfigField :
               dock_widget'[field] = setup_ui[field]
                  => plugin_config'[ConfigField[field]]
                        = load_config(plugin_config, file)[ConfigField[field]]]_vars

\* A connection attempt begins: a socket starts its handshake.
OpenAttempt ==
    \E i \in DOMAIN sockets :
        sockets'[i].state = "connecting" /\ sockets[i].state # "connecting"

\* C14: the plugin never reconnects by itself: every step in which a
\* connection attempt begins is a Connect click, so a closed or failed
\* socket stays as it is until the user clicks Connect.
C14_NoReconnectWithoutClick ==
    [][OpenAttempt => on_connect_clicked]_vars

\* The connection was open, received a message and was closed, the status
\* timer ran since the host started recording, and the closed socket is
\* still the current one.
C14_Witness ==
    /\ websocket = 1
    /\ sockets[1].state = "closed"
    /\ delivered # <<>>
    /\ obs.recording
    /\ dock_widget.recording_status_label = "Recording"

\* A text message that is not valid JSON, is not a JSON object, or has no
\* string under "type".
Malformed(message) ==
    \/ message.json # "object"
    \/ message.type \in {JsonAbsent, JsonNumber}

\* C16: a malformed inbound message is dispatched with an empty event
\* type, invokes no host action, and leaves the host, the configuration
\* and the connection as they were.
C16_MalformedMessageDispatchedEmpty ==
    [][(delivered' # delivered /\ delivered' # <<>>
        /\ Malformed(delivered'[Len(delivered')]))
       => /\ Len(dispatched') = Len(delivered')
          /\ dispatched'[Len(dispatched')].type = ""
          /\ calls' = <<>>
          /\ obs' = obs
          /\ plugin_config' = plugin_config
          /\ websocket' = websocket
          /\ sockets' = sockets]_vars

\* The reply of a health check arrived in this step.
ReplyArrived ==
    /\ phase = "running" /\ phase' = "running"
    /\ pending # <<>> /\ pending' = Tail(pending)

\* The text of the log's latest line.
Said(w) == w.log_text[Len(w.log_text)].text

\* C18: Test Connection reports success exactly when the reply has no
\* network error and its status field is "healthy", an unhealthy status
\* when there is no network error and the status differs or is absent,
\* and failure on a network error; the connected flag, the socket and the
\* configuration are unchanged.
C18_TestConnectionReport ==
    [][ReplyArrived =>
         /\ (Said(dock_widget') = "Connection test successful")
               <=> (~Head(pending).reply.error
                      /\ Head(pending).reply.status = "healthy")
         /\ (Said(dock_widget') = "Server responded but reported unhealthy status")
               <=> (~Head(pending).reply.error
                      /\ Head(pending).reply.status # "healthy")
         /\ (Said(dock_widget') = "Connection test failed")
               <=> Head(pending).reply.error
         /\ UNCHANGED <<plugin_config, file, websocket, sockets>>]_vars

\* A test run while the socket was open was answered without a status
\* field and reported as unhealthy.
C18_Witness ==
    /\ phase = "running"
    /\ pending = <<>>
    /\ Live({"open"})
    /\ dock_widget.log_text # <<>>
    /\ Said(dock_widget) = "Server responded but reported unhealthy status"

FollowsFlag(cfg, w) ==
    \E flag \in {cfg # NULL /\ cfg.connected} :
        /\ w.connect_button = ~flag
        /\ w.disconnect_button = flag
        /\ (w.connection_status_label = "Connected") = flag

\* C22: in every state after the widget is constructed, the Connect
\* button is enabled exactly when the connected flag is false, the
\* Disconnect button exactly when it is true, and the connection status
\* label reads Connected exactly when it is true; the two socket slots,
\* which set and clear the flag, leave the widget so from any such state.
C22_ControlsFollowFlag ==
    dock_widget # NULL =>
        /\ FollowsFlag(plugin_config, dock_widget)
        /\ \A r \in {on_websocket_disconnected(SlotState)} :
               ~r.cfg.connected /\ FollowsFlag(r.cfg, r.w)
        /\ websocket # 0 =>
               \A r \in {on_websocket_connected(SlotState, websocket)} :
                   r.cfg.connected /\ FollowsFlag(r.cfg, r.w)

\* The socket is open after a user edit; the flag is false, Connect is
\* enabled and Disconnect is not, and the connected slot would set the
\* flag, disable Connect and enable Disconnect.
C22_Witness ==
    /\ phase = "running"
    /\ edits > 0
    /\ Live({"open"})
    /\ ~plugin_config.connected
    /\ dock_widget.connect_button
    /\ ~dock_widget.disconnect_button
    /\ dock_widget.connection_status_label = "Disconnected"
    /\ \E r \in {on_websocket_connected(SlotState, websocket)} :
           /\ r.cfg.connected
           /\ r.w.disconnect_button
           /\ ~r.w.connect_button
           /\ r.w.connection_status_label = "Connected"

\* The Authorization header that follows API key `key`.
HeaderFor(key) ==
    IF key # NullStr /\ key # "" THEN <<"Bearer", key>> ELSE <<>>

\* A health-check request was sent.
HealthCheckSent == phase = "running" /\ Len(pending') > Len(pending)

\* C23: the socket open request carries an Authorization: Bearer <api key>
\* header exactly when the configured API key is non-empty, and the
\* health-check request carries it exactly when the API key form field is
\* non-empty; in both the token is the key itself.
C23_BearerFollowsApiKey ==
    [][/\ OpenAttempt =>
              sockets'[websocket'].auth = HeaderFor(plugin_config.api_key)
       /\ HealthCheckSent =>
              pending'[Len(pending')].auth = HeaderFor(dock_widget.api_key_edit)]_vars

\* A health check went out without the header while no key was set; the
\* user then set a key, and the socket was opened with the header.
C23_Witness ==
    /\ phase = "running"
    /\ pending # <<>>
    /\ pending[1].auth = <<>>
    /\ plugin_config.api_key # ""
    /\ Live({"connecting"})
    /\ sockets[websocket].auth = <<"Bearer", plugin_config.api_key>>

\* C24: the periodic status tick is display-only: on_status_update sets
\* the recording label to the host's recording state and the meeting label
\* to the connected flag, changes no other field of the widget, and leaves
\* the configuration with its connected flag, the file, the socket and the
\* host's scene, mute and recording state unchanged.
C24_StatusTickDisplayOnly ==
    [][on_status_update =>
          /\ dock_widget'.recording_status_label =
                 (IF obs.recording THEN "Recording" ELSE "Not recording")
          /\ dock_widget'.meeting_status_label =
                 (IF plugin_config.connected
                  THEN "Connected to meeting" ELSE "No active meeting")
          /\ \A field \in DOMAIN dock_widget \ {"recording_status_label",
                                                "meeting_status_label"} :
                 dock_widget'[field] = dock_widget[field]
          /\ plugin_config' = plugin_config
          /\ file' = file
          /\ websocket' = websocket
          /\ sockets' = sockets
          /\ obs' = obs
          /\ scenes' = scenes /\ sources' = sources
          /\ calls' = calls]_vars

\* The host is recording, a socket is open, and the tick has shown the
\* recording on the label.
C24_Witness ==
    /\ phase = "running"
    /\ obs.recording
    /\ Live({"open"})
    /\ dock_widget.recording_status_label = "Recording"
    /\ dock_widget.meeting_status_label = "No active meeting"

\* A step of obs_module_unload.
Unloading == phase = "running" /\ phase' # "running"

\* The objects obs_module_unload deletes a second time: those the static
\* pointers still refer to after unregister_dock deleted them with the
\* widget.
DeletedTwice ==
    {o \in {"network_manager"} :
        unregister_dock(dock_widget, websocket,
            disconnect_from_server(websocket, sockets),
            network_manager).network_manager = "dangling"}
    \cup
    {o \in {"websocket"} :
        \E u \in {unregister_dock(dock_widget, websocket,
                      disconnect_from_server(websocket, sockets),
                      network_manager)} :
            u.websocket # 0 /\ u.sockets[u.websocket].state = "free"}

\* C21: during obs_module_unload, after any sequence of operations, each
\* owned object (socket, network manager, configuration, dock widget) is
\* destroyed at most once and none is used after destruction; afterwards
\* the process goes on to exit with the configuration, socket and
\* network-manager pointers null and no socket left on the heap.
C21_UnloadDestroysOnce ==
    [][Unloading =>
          /\ DeletedTwice = {}
          /\ phase' = "exited"
          /\ plugin_config' = NULL
          /\ dock_widget' = NULL
          /\ websocket' = 0
          /\ network_manager' = "nullptr"
          /\ \A i \in DOMAIN sockets' : sockets'[i].state = "free"]_vars

---------------------------------------------------------------------------
(* The dispatcher on its own: handle_meeting_event and the message slot    *)
(* applied to every event type, toggle combination and host state.  The    *)
(* plugin is running with an open socket; the toggles are as the user set  *)
(* them in the form, and the host may lack scenes and sources.             *)

KnownEvents == {"meeting_started", "meeting_ended", "presentation_started",
                "screen_share_started", "screen_share_ended",
                "break_started", "break_ended"}
UnknownEvents == {"", "participant_joined", "MEETING_STARTED"}
EventTypes == KnownEvents \cup UnknownEvents
Payloads == {EmptyObject, "{presenter}"}

SceneChoices  == {Scenes, {}, {SCENE_DISCUSSION, SCENE_BREAK}}
SourceChoices == {Sources, {}, {AUDIO_DESKTOP}}

\* The text messages handed to the message slot.
SlotMessages ==
    {Message("object", ty, d) :
        ty \in {"meeting_started", "break_started", "participant_joined",
                JsonAbsent, JsonNumber},
        d \in {"{presenter}", JsonAbsent}}
    \cup {Message("array", JsonAbsent, JsonAbsent),
          Message("invalid", JsonAbsent, JsonAbsent)}

\* The configuration, the form and the file once the user has set the four
\* check boxes of a freshly installed plugin.
Toggled(b) ==
    setChecked(setChecked(setChecked(setChecked(
        register_dock(load_config(NULL, NoFile), NoFile),
        "auto_scene_switching_check", b[1]),
        "auto_recording_check", b[2]),
        "audio_management_check", b[3]),
        "meeting_notifications_check", b[4])

DispatchInit ==
    /\ phase = "running"
    /\ edits = 0
    /\ \E b \in [1..4 -> BOOLEAN] :
          \E s \in {Toggled(b)} :
              /\ plugin_config = s.cfg
              /\ dock_widget = s.w
              /\ file = s.file
    /\ websocket = 1
    /\ sockets = [FreshSockets EXCEPT ![1].state = "open"]
    /\ network_manager = "nullptr"
    /\ pending = <<>>
    /\ \E rec \in BOOLEAN, m \in BOOLEAN :
          obs = [HostAtRest EXCEPT !.recording = rec,
                                   !.muted = [s \in Sources |-> m]]
    /\ scenes \in SceneChoices
    /\ sources \in SourceChoices
    /\ calls = <<>>
    /\ delivered = <<>>
    /\ dispatched = <<>>

\* handle_meeting_event(event_type, data), called on its own.
HandleEvent ==
    \E event_type \in EventTypes, data \in Payloads :
        LET h == handle_meeting_event([obs |-> obs, calls |-> <<>>],
                                      plugin_config, event_type, data)
        IN  /\ obs' = h.obs
            /\ calls' = h.calls
            /\ dispatched' = <<Event(event_type, data)>>
            /\ delivered' = <<>>
            /\ UNCHANGED <<phase, edits, cfgVars, websocket, sockets, netVars,
                           scenes, sources>>

\* on_websocket_message(message), called as the slot it is declared to be.
SlotMessage ==
    /\ Len(dock_widget.log_text) < MaxLogged
    /\ \E message \in SlotMessages :
        LET r == on_websocket_message(
                     [w |-> dock_widget, h |-> [obs |-> obs, calls |-> <<>>],
                      dispatched |-> <<>>], plugin_config, message)
        IN  /\ dock_widget' = r.w
            /\ obs' = r.h.obs
            /\ calls' = r.h.calls
            /\ dispatched' = r.dispatched
            /\ delivered' = <<message>>
            /\ UNCHANGED <<phase, edits, file, plugin_config, websocket,
                           sockets, netVars, scenes, sources>>

DispatchNext ==
    \/ HandleEvent
    \/ SlotMessage
    \/ HostRecording

DispatchSpec == DispatchInit /\ [][DispatchNext]_vars


---------------------------------------------------------------------------
(* Claims about the dispatcher, checked under DispatchSpec *)

\* What a call was, without its outcome.
Shape(c) == <<c.fn, c.name, c.muted>>
CallShapes == [i \in 1..Len(calls) |-> Shape(calls[i])]
LastEvent == dispatched[Len(dispatched)]

\* The table of section 4.1 of the specification: per event type, the
\* action of each of the three categories (none where the table has a dash).
Row(scene, recording, audio) == [scene |-> scene, recording |-> recording, audio |-> audio]
SwitchTo(name) == << <<"switch_to_scene", name, FALSE>> >>
Mute(name, muted) == << <<"set_source_mute", name, muted>> >>
DispatchTable ==
    [meeting_started |->
        Row(SwitchTo("Meeting - Welcome"), << <<"start_recording", "", FALSE>> >>,
            Mute("Microphone", FALSE)),
     meeting_ended |->
        Row(SwitchTo("Meeting - Ending"), << <<"stop_recording", "", FALSE>> >>, <<>>),
     presentation_started |->
        Row(SwitchTo("Meeting - Presentation"), <<>>, <<>>),
     screen_share_started |->
        Row(SwitchTo("Meeting - Screen Share"), <<>>, Mute("Desktop Audio", FALSE)),
     screen_share_ended |->
        Row(SwitchTo("Meeting - Discussion"), <<>>, <<>>),
     break_started |->
        Row(SwitchTo("Meeting - Break"), <<>>, Mute("Microphone", TRUE)),
     break_ended |->
        Row(SwitchTo("Meeting - Discussion"), <<>>, Mute("Microphone", FALSE))]

\* The table's actions for an event under a configuration's toggles, in the
\* order scene switch, recording, audio.
Expected(event_type, cfg) ==
    (IF cfg.auto_scene_switching THEN DispatchTable[event_type].scene ELSE <<>>)
    \o (IF cfg.auto_recording THEN DispatchTable[event_type].recording ELSE <<>>)
    \o (IF cfg.audio_management THEN DispatchTable[event_type].audio ELSE <<>>)

\* C1: for each of the seven event types and each combination of the three
\* toggles, handle_meeting_event invokes exactly the actions the table lists
\* for the enabled toggles, in the order scene switch, recording, audio.
C1_DispatchMatchesTable ==
    (dispatched # <<>> /\ LastEvent.type \in KnownEvents)
        => CallShapes = Expected(LastEvent.type, plugin_config)

\* meeting_started with scene switching off and recording on, audio off:
\* only "start recording" is invoked.
C1_Witness ==
    /\ dispatched # <<>>
    /\ LastEvent.type = "meeting_started"
    /\ ~plugin_config.auto_scene_switching
    /\ plugin_config.auto_recording
    /\ ~plugin_config.audio_management
    /\ CallShapes = << <<"start_recording", "", FALSE>> >>

\* C2: an event type that is none of the seven invokes no host action,
\* whatever the toggles, and the host is left as it was.
C2_UnknownEventIgnored ==
    [][(dispatched' # dispatched /\ dispatched' # <<>>
        /\ dispatched'[Len(dispatched')].type \notin KnownEvents)
       => (calls' = <<>> /\ obs' = obs /\ plugin_config' = plugin_config)]_vars

\* An unknown event was handled with all three toggles on.
C2_Witness ==
    /\ dispatched # <<>>
    /\ LastEvent.type = "MEETING_STARTED"
    /\ plugin_config.auto_scene_switching
    /\ plugin_config.auto_recording
    /\ plugin_config.audio_management
    /\ calls = <<>>

\* A call that failed because the host could not resolve the name.
LookupMiss(c) == c.fn \in {"switch_to_scene", "set_source_mute"} /\ ~c.applied

\* C3: when an action of an event fails to resolve its scene or source,
\* every later action of the event's list is still attempted, with its
\* effect on the host when it succeeds.
C3_FailureDoesNotStopLaterActions ==
    [][(dispatched' # dispatched /\ dispatched' # <<>>
        /\ dispatched'[Len(dispatched')].type \in KnownEvents)
       => \A i \in 1..Len(calls') :
             LookupMiss(calls'[i]) =>
                /\ Len(calls') =
                      Len(Expected(dispatched'[Len(dispatched')].type, plugin_config))
                /\ \A k \in (i + 1)..Len(calls') :
                      /\ Shape(calls'[k]) =
                            Expected(dispatched'[Len(dispatched')].type, plugin_config)[k]
                      /\ (calls'[k].fn = "start_recording" => obs'.recording)
                      /\ (calls'[k].fn = "stop_recording" => ~obs'.recording)
                      /\ (calls'[k].fn = "set_source_mute" /\ calls'[k].applied
                             => obs'.muted[calls'[k].name] = calls'[k].muted)]_vars

\* meeting_started where the Welcome scene is missing: recording was still
\* started and the microphone still unmuted.
C3_Witness ==
    /\ dispatched # <<>>
    /\ LastEvent.type = "meeting_started"
    /\ Len(calls) = 3
    /\ LookupMiss(calls[1])
    /\ calls[2].fn = "start_recording" /\ calls[2].applied
    /\ calls[3].fn = "set_source_mute" /\ calls[3].applied
    /\ obs.recording /\ ~obs.muted["Microphone"]


\* The three categories of host action and the toggle that gates each.
CategoryOf ==
    [switch_to_scene |-> "scene", start_recording |-> "recording",
     stop_recording |-> "recording", set_source_mute |-> "audio"]
ToggleOf ==
    [scene |-> "auto_scene_switching", recording |-> "auto_recording",
     audio |-> "audio_management"]

\* The calls of one category among cs, without their outcome.
ShapesIn(cs, category) ==
    LET OfCategory(c) == CategoryOf[c.fn] = category
        kept == SelectSeq(cs, OfCategory)
    IN  [i \in 1..Len(kept) |-> Shape(kept[i])]

\* The configurations of a second run: any toggles, any connected flag.
OtherConfigs ==
    {[plugin_config EXCEPT !.auto_scene_switching = b[1],
                           !.auto_recording = b[2],
                           !.audio_management = b[3],
                           !.meeting_notifications = b[4],
                           !.connected = b[5]] : b \in [1..5 -> BOOLEAN]}

\* handle_meeting_event ran in this step, for the first event of the run.
Handled == dispatched = <<>> /\ delivered' = <<>> /\ dispatched' # <<>>

\* C12: for a fixed event type, the action of a category depends only on
\* that category's toggle: a second run on the same host that differs in
\* the payload, the notifications toggle, the connected flag or the other
\* categories' toggles invokes the same action of the category.
C12_ToggleGatesOwnCategory ==
    [][Handled =>
        \A cfg2 \in OtherConfigs, data2 \in Payloads :
           \E other \in {handle_meeting_event([obs |-> obs, calls |-> <<>>], cfg2,
                             dispatched'[1].type, data2).calls} :
              \A category \in DOMAIN ToggleOf :
                 cfg2[ToggleOf[category]] = plugin_config[ToggleOf[category]]
                    => ShapesIn(other, category) = ShapesIn(calls', category)]_vars

\* break_started with scene switching and audio management on and
\* recording off: the scene switch and the mute, and no recording call.
C12_Witness ==
    /\ dispatched = <<Event("break_started", "{presenter}")>>
    /\ plugin_config.auto_scene_switching
    /\ ~plugin_config.auto_recording
    /\ plugin_config.audio_management
    /\ ShapesIn(calls, "scene") = SwitchTo("Meeting - Break")
    /\ ShapesIn(calls, "recording") = <<>>
    /\ ShapesIn(calls, "audio") = Mute("Microphone", TRUE)


---------------------------------------------------------------------------
(* The activity log on its own: log_message applied to a log that already  *)
(* holds LogCap - 1 or LogCap lines.  A line's text is its number in the   *)
(* order of logging; the oldest lines of the earlier log and every new     *)
(* line take one row or more, as the view's width has it.                  *)

EarlierLogs ==
    {[i \in 1..n |-> Line(i, IF i <= WrappedHead THEN r[i] ELSE 1)] :
        n \in {LogCap - 1, LogCap}, r \in [1..WrappedHead -> 1..MaxRows]}

LogInit ==
    /\ phase = "running"
    /\ edits = 0
    /\ \E s \in {register_dock(load_config(NULL, NoFile), NoFile)} :
          /\ plugin_config = s.cfg
          /\ file = s.file
          /\ \E log \in EarlierLogs :
                dock_widget = [s.w EXCEPT !.log_text = log]
    /\ websocket = 0
    /\ sockets = FreshSockets
    /\ network_manager = "nullptr"
    /\ pending = <<>>
    /\ obs = HostAtRest
    /\ scenes = Scenes
    /\ sources = Sources
    /\ calls = <<>>
    /\ delivered = <<>>
    /\ dispatched = <<>>

\* The number of lines logged so far.
Logged ==
    IF dock_widget.log_text = <<>> THEN 0
    ELSE dock_widget.log_text[Len(dock_widget.log_text)].text

\* log_message(message), called on its own.
LogLine ==
    /\ Logged < LogCap + MaxAppended
    /\ \E rows \in 1..MaxRows :
          dock_widget' = log_message(dock_widget, Line(Logged + 1, rows))
    /\ UNCHANGED <<phase, edits, file, plugin_config, connVars, netVars,
                   hostVars>>

LogNext == LogLine

LogSpec == LogInit /\ [][LogNext]_vars

\* C15: after any sequence of log_message calls the log holds at most 100
\* lines, and they are the most recent lines, whole, in the order they
\* were logged.
C15_LogHoldsLast100 ==
    /\ Len(dock_widget.log_text) = IF Logged <= LogCap THEN Logged ELSE LogCap
    /\ \A i \in 1..Len(dock_widget.log_text) :
          /\ ~dock_widget.log_text[i].cut
          /\ dock_widget.log_text[i].text = Logged - Len(dock_widget.log_text) + i


\* handle_meeting_event or the message slot ran in this step.
Dispatched == dispatched' # <<>> /\ (calls' # calls \/ dispatched' # dispatched)

\* The calls of this step that asked for a name the host does not hold.
UnresolvedScene ==
    \E i \in 1..Len(calls') :
        calls'[i].fn = "switch_to_scene" /\ calls'[i].name \notin scenes
UnresolvedSource ==
    \E i \in 1..Len(calls') :
        calls'[i].fn = "set_source_mute" /\ calls'[i].name \notin sources

\* C17: when the host cannot resolve the scene name, switch_to_scene leaves
\* the current scene unchanged; when it cannot resolve the source name,
\* set_source_mute leaves every source's mute state unchanged; when every
\* call of an event fails so, nothing in host or plugin state changes but
\* the activity log.
C17_LookupFailureChangesNothing ==
    [][Dispatched =>
         /\ UnresolvedScene => obs'.current_scene = obs.current_scene
         /\ (UnresolvedSource
               /\ \A i \in 1..Len(calls') :
                      calls'[i].fn = "set_source_mute" => calls'[i].name \notin sources)
              => obs'.muted = obs.muted
         /\ (calls' # <<>> /\ \A i \in 1..Len(calls') : LookupMiss(calls'[i]))
              => /\ obs' = obs
                 /\ dock_widget' =
                       [dock_widget EXCEPT !.log_text = dock_widget'.log_text]
                 /\ UNCHANGED <<phase, edits, file, plugin_config, websocket,
                                sockets, netVars, scenes, sources>>]_vars

\* break_started on a host with neither the Break scene nor the
\* microphone: both calls were made and failed, the host is as it was.
C17_Witness ==
    /\ dispatched = <<Event("break_started", EmptyObject)>>
    /\ SCENE_BREAK \notin scenes
    /\ AUDIO_MICROPHONE \notin sources
    /\ Len(calls) = 2
    /\ LookupMiss(calls[1]) /\ LookupMiss(calls[2])
    /\ obs.current_scene = "Studio"
    /\ obs.muted = [s \in Sources |-> TRUE]


\* The host was asked to start (stop) recording in this step.
AskedToStart ==
    \E i \in 1..Len(calls') : calls'[i].fn = "start_recording" /\ calls'[i].applied
AskedToStop ==
    \E i \in 1..Len(calls') : calls'[i].fn = "stop_recording" /\ calls'[i].applied

\* C20: the host is asked to start recording only in a state where
\* recording is not active and to stop only where it is active:
\* meeting_started while recording, or meeting_ended while not recording,
\* issues no recording call to the host and leaves recording as it is.
C20_RecordingCallsGuarded ==
    [][Dispatched =>
         /\ AskedToStart => ~obs.recording /\ obs'.recording
         /\ AskedToStop => obs.recording /\ ~obs'.recording
         /\ (dispatched'[Len(dispatched')].type = "meeting_started" /\ obs.recording)
               => ~AskedToStart /\ ~AskedToStop /\ obs'.recording
         /\ (dispatched'[Len(dispatched')].type = "meeting_ended" /\ ~obs.recording)
               => ~AskedToStart /\ ~AskedToStop /\ ~obs'.recording]_vars

\* meeting_started with automatic recording on, handled while the host was
\* recording: start_recording ran and did not ask the host.
C20_Witness ==
    /\ dispatched = <<Event("meeting_started", EmptyObject)>>
    /\ plugin_config.auto_recording
    /\ ~plugin_config.auto_scene_switching
    /\ ~plugin_config.audio_management
    /\ obs.recording
    /\ Len(calls) = 1
    /\ calls[1].fn = "start_recording" /\ ~calls[1].applied

=============================================================================
